---- MODULE Spec2Model ----
(***************************************************************************)
(* TokenFetch (src/src/main.rs): the pipeline of main as a state machine.  *)
(* Chain resolution, API key lookup, target path check, directory          *)
(* creation, forge init, Counter cleanup, the HTTP fetch, the decoding of  *)
(* SourceCode and the writing of the source files.                         *)
(*                                                                         *)
(* A Rust String is a sequence of one-character strings.  A path on disk   *)
(* is the sequence of its component names from the working directory.      *)
(***************************************************************************)
EXTENDS Integers, Sequences, FiniteSets, TLC

\* ------------------------------------------------------------------ text

Last(s) == s[Len(s)]

\* str::starts_with
starts_with(s, pat) ==
    Len(s) >= Len(pat) /\ SubSeq(s, 1, Len(pat)) = pat

\* str::find: the index of the first occurrence of pat at or after i, or 0
RECURSIVE find_from(_, _, _)
find_from(s, pat, i) ==
    IF i + Len(pat) - 1 > Len(s) THEN 0
    ELSE IF SubSeq(s, i, i + Len(pat) - 1) = pat THEN i
    ELSE find_from(s, pat, i + 1)

\* str::contains
contains(s, pat) == find_from(s, pat, 1) # 0

\* str::replace: every non-overlapping match, scanning left to right
RECURSIVE replace(_, _, _)
replace(s, from, to) ==
    LET i == find_from(s, from, 1) IN
    IF i = 0 THEN s
    ELSE SubSeq(s, 1, i - 1) \o to
         \o replace(SubSeq(s, i + Len(from), Len(s)), from, to)

\* str::split(sep).collect(): always at least one part
RECURSIVE split(_, _)
split(s, sep) ==
    LET i == find_from(s, <<sep>>, 1) IN
    IF i = 0 THEN <<s>>
    ELSE <<SubSeq(s, 1, i - 1)>> \o split(SubSeq(s, i + 1, Len(s)), sep)

UpperCase ==
    <<"A", "B", "C", "D", "E", "F", "G", "H", "I", "J", "K", "L", "M",
      "N", "O", "P", "Q", "R", "S", "T", "U", "V", "W", "X", "Y", "Z">>

LowerCase ==
    <<"a", "b", "c", "d", "e", "f", "g", "h", "i", "j", "k", "l", "m",
      "n", "o", "p", "q", "r", "s", "t", "u", "v", "w", "x", "y", "z">>

\* char::to_lowercase of an ASCII character
LowerOf(c) ==
    IF \E i \in 1..Len(UpperCase) : UpperCase[i] = c
      THEN LowerCase[CHOOSE i \in 1..Len(UpperCase) : UpperCase[i] = c]
      ELSE c

\* str::to_lowercase
to_lowercase(s) ==
    [i \in 1..Len(s) |-> LowerOf(s[i])]

\* ------------------------------------------------------ serde_json::Value

\* A Value is a record: t its kind, s the text of a string, o the map of an
\* object (key -> Value), a the items of an array.
Null == [t |-> "null", s |-> <<>>, o |-> <<>>, a |-> <<>>]
Bool(b) == [t |-> "bool", s |-> b, o |-> <<>>, a |-> <<>>]
Number(n) == [t |-> "number", s |-> n, o |-> <<>>, a |-> <<>>]
Str(s) == [t |-> "string", s |-> s, o |-> <<>>, a |-> <<>>]
Object(o) == [t |-> "object", s |-> <<>>, o |-> o, a |-> <<>>]
Array(a) == [t |-> "array", s |-> <<>>, o |-> <<>>, a |-> a]

None == [some |-> FALSE, v |-> <<>>]
Some(v) == [some |-> TRUE, v |-> v]

\* Value::as_str, Value::as_object, Value::as_array
as_str(v) == IF v.t = "string" THEN Some(v.s) ELSE None
as_object(v) == IF v.t = "object" THEN Some(v.o) ELSE None
as_array(v) == IF v.t = "array" THEN Some(v.a) ELSE None

\* value[key]: Null unless value is an object holding key
Index(v, key) ==
    IF v.t = "object" /\ key \in DOMAIN v.o THEN v.o[key] ELSE Null

\* Map::insert: a later value for the same key replaces the earlier one
MapInsert(m, k, v) ==
    [x \in (DOMAIN m) \cup {k} |-> IF x = k THEN v ELSE m[x]]

\* ------------------------------------------------- serde_json::from_str
\* The grammar of serde_json over the characters the modelled documents are
\* made of: braces, quote, colon, comma, space, letters, slash and dot.  No
\* document holds a digit, a bracket, a minus sign or a backslash, so
\* numbers, arrays and escapes are not parsed.

QUOTE == "\""

Fail == [ok |-> FALSE, v |-> Null, pos |-> 0]
Parsed(v, pos) == [ok |-> TRUE, v |-> v, pos |-> pos]

RECURSIVE SkipWs(_, _)
SkipWs(s, i) ==
    IF i <= Len(s) /\ s[i] = " " THEN SkipWs(s, i + 1) ELSE i

\* s[i] is the opening quote; the string ends at the next quote
ParseString(s, i) ==
    LET j == find_from(s, <<QUOTE>>, i + 1) IN
    IF j = 0 THEN Fail ELSE Parsed(Str(SubSeq(s, i + 1, j - 1)), j + 1)

RECURSIVE ParseValue(_, _)
RECURSIVE ParseMembers(_, _, _)

\* i is at the first non-blank character after "{" or after ","
ParseMembers(s, i, acc) ==
    IF i > Len(s) \/ s[i] # QUOTE THEN Fail
    ELSE
      LET key == ParseString(s, i) IN
      IF ~key.ok THEN Fail
      ELSE
        LET c == SkipWs(s, key.pos) IN
        IF c > Len(s) \/ s[c] # ":" THEN Fail
        ELSE
          LET val == ParseValue(s, SkipWs(s, c + 1)) IN
          IF ~val.ok THEN Fail
          ELSE
            LET m == MapInsert(acc, key.v.s, val.v)
                n == SkipWs(s, val.pos)
            IN
            IF n > Len(s) THEN Fail
            ELSE IF s[n] = "}" THEN Parsed(Object(m), n + 1)
            ELSE IF s[n] = "," THEN ParseMembers(s, SkipWs(s, n + 1), m)
            ELSE Fail

ParseValue(s, i) ==
    IF i > Len(s) THEN Fail
    ELSE IF s[i] = "{" THEN
      LET j == SkipWs(s, i + 1) IN
      IF j <= Len(s) /\ s[j] = "}" THEN Parsed(Object(<<>>), j + 1)
      ELSE ParseMembers(s, j, <<>>)
    ELSE IF s[i] = QUOTE THEN ParseString(s, i)
    ELSE IF starts_with(SubSeq(s, i, Len(s)), <<"n", "u", "l", "l">>)
      THEN Parsed(Null, i + 4)
    ELSE IF starts_with(SubSeq(s, i, Len(s)), <<"t", "r", "u", "e">>)
      THEN Parsed(Bool(<<"t", "r", "u", "e">>), i + 4)
    ELSE IF starts_with(SubSeq(s, i, Len(s)), <<"f", "a", "l", "s", "e">>)
      THEN Parsed(Bool(<<"f", "a", "l", "s", "e">>), i + 5)
    ELSE Fail

\* One value, then nothing but blanks up to the end of the text.
from_str(s) ==
    LET r == ParseValue(s, SkipWs(s, 1)) IN
    IF r.ok /\ SkipWs(s, r.pos) = Len(s) + 1 THEN r ELSE Fail

\* ------------------------------------------------------------- constants

ETH == <<"e", "t", "h">>
BASE == <<"b", "a", "s", "e">>
SRC == <<"s", "r", "c">>
TEST == <<"t", "e", "s", "t">>
COUNTER == <<"C", "o", "u", "n", "t", "e", "r">>
SINGLE_SOL == <<"S", "i", "n", "g", "l", "e", ".", "s", "o", "l">>
SOURCES == <<"s", "o", "u", "r", "c", "e", "s">>
CONTENT == <<"c", "o", "n", "t", "e", "n", "t">>
STATUS == <<"s", "t", "a", "t", "u", "s">>
RESULT == <<"r", "e", "s", "u", "l", "t">>
SOURCECODE == <<"S", "o", "u", "r", "c", "e", "C", "o", "d", "e">>
DOTDOT == <<".", ".">>
DOT == <<".">>

\* --------------------------------------------------------- chain resolver

NoConfig == [api_key_env |-> "", api_url |-> "", chain_id |-> 0]

\* The match arm for an unknown alias answers with the eth configuration.
get_chain_config_default_eth(chain) ==
    LET name == to_lowercase(chain) IN
    IF name = BASE
      THEN Some([api_key_env |-> "BASESCAN_API_KEY",
                 api_url |-> "https://api.basescan.org/api",
                 chain_id |-> 8453])
      ELSE Some([api_key_env |-> "ETHERSCAN_API_KEY",
                 api_url |-> "https://api.etherscan.io/api",
                 chain_id |-> 1])

get_chain_config(chain) ==
    LET name == to_lowercase(chain) IN
    IF name = ETH
      THEN Some([api_key_env |-> "ETHERSCAN_API_KEY",
                 api_url |-> "https://api.etherscan.io/api",
                 chain_id |-> 1])
    ELSE IF name = BASE
      THEN Some([api_key_env |-> "BASESCAN_API_KEY",
                 api_url |-> "https://api.basescan.org/api",
                 chain_id |-> 8453])
    ELSE [some |-> FALSE, v |-> NoConfig]

\* format!("{}?module=contract&action=getsourcecode&address={}&apikey={}")
build_url(config, address, api_key) ==
    <<config.api_url, "?module=contract&action=getsourcecode&address=",
      address, "&apikey=", api_key>>

\* ------------------------------------------------------------ filesystem
\* fs.dirs: the directories, fs.files: file -> content; both keyed by the
\* component names from the working directory (<<>>, which exists).

IsDir(f, p) == p = <<>> \/ Last(p) = DOTDOT \/ p \in f.dirs
IsFile(f, p) == p \in DOMAIN f.files
Exists(f, p) == IsDir(f, p) \/ IsFile(f, p)

IsPrefix(p, q) == Len(p) <= Len(q) /\ SubSeq(q, 1, Len(p)) = p

\* The components the OS resolves: empty ones (doubled or trailing
\* separators) do not count.
Components(text) == SelectSeq(split(text, "/"), LAMBDA c : c # <<>>)

\* One component further: "." stays, ".." goes to the parent.
Step(cur, c) ==
    IF c = DOT THEN cur
    ELSE IF c = DOTDOT THEN
      IF cur = <<>> \/ Last(cur) = DOTDOT THEN Append(cur, DOTDOT)
      ELSE SubSeq(cur, 1, Len(cur) - 1)
    ELSE Append(cur, c)

\* Path resolution: every component passed through must be a directory.
RECURSIVE Walk(_, _, _)
Walk(f, cur, comps) ==
    IF comps = <<>> THEN [ok |-> TRUE, p |-> cur]
    ELSE IF ~IsDir(f, cur) THEN [ok |-> FALSE, p |-> cur]
    ELSE Walk(f, Step(cur, Head(comps)), Tail(comps))

Resolve(f, text) == Walk(f, <<>>, Components(text))

\* Path::exists
path_exists(f, text) ==
    LET r == Resolve(f, text) IN r.ok /\ Exists(f, r.p)

\* PathBuf::push / Path::join of a component that holds no separator: a
\* separator is added unless the path already ends with one.
push(text, seg) ==
    IF text = <<>> \/ Last(text) = "/" THEN text \o seg
    ELSE text \o <<"/">> \o seg

\* std::fs::create_dir: the parent must exist, the path must not.
create_dir(f, text) ==
    LET r == Resolve(f, text) IN
    IF ~r.ok \/ Exists(f, r.p) \/ ~IsDir(f, Step(r.p, DOTDOT))
      THEN [ok |-> FALSE, fs |-> f]
      ELSE [ok |-> TRUE, fs |-> [f EXCEPT !.dirs = @ \cup {r.p}]]

\* std::fs::create_dir_all: every missing directory on the way is created;
\* an existing directory is no error, a file in the way is.
RECURSIVE MkdirAll(_, _, _)
MkdirAll(f, cur, comps) ==
    IF comps = <<>> THEN [ok |-> TRUE, fs |-> f]
    ELSE
      LET nxt == Step(cur, Head(comps)) IN
      IF IsFile(f, nxt) THEN [ok |-> FALSE, fs |-> f]
      ELSE MkdirAll(IF IsDir(f, nxt) THEN f
                    ELSE [f EXCEPT !.dirs = @ \cup {nxt}],
                    nxt, Tail(comps))

create_dir_all(f, text) == MkdirAll(f, <<>>, Components(text))

\* File::create then write_all: the parent must be a directory and the
\* path must name no directory (a path ending in a separator, in "." or in
\* ".." names one); an existing file is truncated.
file_create_write(f, text, content) ==
    LET comps == Components(text)
        r == Resolve(f, text)
    IN
    IF comps = <<>> \/ Last(text) = "/" \/ Last(comps) \in {DOT, DOTDOT}
       \/ ~r.ok \/ IsDir(f, r.p) \/ ~IsDir(f, SubSeq(r.p, 1, Len(r.p) - 1))
      THEN [ok |-> FALSE, fs |-> f, p |-> <<>>]
      ELSE [ok |-> TRUE,
            fs |-> [f EXCEPT !.files = MapInsert(@, r.p, content)],
            p |-> r.p]

\* std::fs::remove_file of every file of the set
remove_files(f, ps) ==
    [f EXCEPT !.files = [p \in (DOMAIN @) \ ps |-> @[p]]]

\* The text of a path below base: base joined with the further components.
RECURSIVE JoinAll(_, _)
JoinAll(text, comps) ==
    IF comps = <<>> THEN text
    ELSE JoinAll(push(text, Head(comps)), Tail(comps))

\* ------------------------------------------------------------- the fetch

\* fetch_contract_source treats a success status as the error.
ApiError_inverted(json) ==
    LET status == as_str(Index(json, STATUS)) IN
    status.some /\ status.v = <<"1">>

\* fetch_contract_source, lines 64-71: an error only when status is a
\* string and that string is not "1".
ApiError(json) ==
    LET status == as_str(Index(json, STATUS)) IN
    status.some /\ status.v # <<"1">>

\* ------------------------------------------------------ the materializer

Err(e) == [ok |-> FALSE, err |-> e, map |-> <<>>]
Ok(m) == [ok |-> TRUE, err |-> "", map |-> m]

\* An empty SourceCode is taken for a source like any other.
is_empty_never(s) == FALSE

\* str::is_empty
is_empty(s) == Len(s) = 0

\* lines 162: replace("{{", "{") then replace("}}", "}")
Cleaned(source_code) ==
    replace(replace(source_code, <<"{", "{">>, <<"{">>), <<"}", "}">>, <<"}">>)

\* The single file keeps the source without its first character.
SingleFileMap_cut(source_code) ==
    MapInsert(<<>>, SINGLE_SOL, Object(CONTENT :> Str(Tail(source_code))))

\* lines 173-180: the map of the single-file format
SingleFileMap(source_code) ==
    MapInsert(<<>>, SINGLE_SOL, Object(CONTENT :> Str(source_code)))

\* lines 158-181: the file map of a non-empty SourceCode
ResolveSources(source_code) ==
    IF starts_with(source_code, <<"{">>) THEN
      LET contract ==
            IF contains(source_code, <<"{", "{">>)
              THEN from_str(Cleaned(source_code))
              ELSE from_str(source_code)
      IN
      IF ~contract.ok THEN Err("json")
      ELSE
        LET o == as_object(Index(contract.v, SOURCES)) IN
        IF ~o.some THEN Err("No sources object in contract") ELSE Ok(o.v)
    ELSE Ok(SingleFileMap(source_code))

\* lines 146-155: the SourceCode string of the envelope
SourceCodeOf(json) ==
    LET result == as_array(Index(json, RESULT)) IN
    IF ~result.some THEN [ok |-> FALSE, err |-> "No result array in response", s |-> <<>>]
    ELSE IF Len(result.v) = 0
      THEN [ok |-> FALSE, err |-> "index out of bounds", s |-> <<>>]
    ELSE
      LET source_code == as_str(Index(result.v[1], SOURCECODE)) IN
      IF ~source_code.some
        THEN [ok |-> FALSE, err |-> "No source code in response", s |-> <<>>]
      ELSE IF is_empty(source_code.v)
        THEN [ok |-> FALSE, err |-> "Contract source code is empty", s |-> <<>>]
      ELSE [ok |-> TRUE, err |-> "", s |-> source_code.v]

\* lines 188-192: each leading part is pushed and created in turn
RECURSIVE MakeDirs(_, _, _)
MakeDirs(f, file_path, dirs) ==
    IF dirs = <<>> THEN [ok |-> TRUE, fs |-> f, file_path |-> file_path]
    ELSE
      LET next_path == push(file_path, Head(dirs))
          r == create_dir_all(f, next_path)
      IN
      IF ~r.ok THEN [ok |-> FALSE, fs |-> r.fs, file_path |-> next_path]
      ELSE MakeDirs(r.fs, next_path, Tail(dirs))

\* lines 185-200: one turn of the loop over the file map
WriteOne(f, src_path, key, value) ==
    LET parts == split(key, "/")
        d == MakeDirs(f, src_path, SubSeq(parts, 1, Len(parts) - 1))
    IN
    IF ~d.ok THEN [ok |-> FALSE, fs |-> d.fs, wrote |-> {}]
    ELSE
      LET file_path == push(d.file_path, Last(parts))
          content == as_str(Index(value, CONTENT))
      IN
      IF ~content.some THEN [ok |-> TRUE, fs |-> d.fs, wrote |-> {}]
      ELSE
        LET w == file_create_write(d.fs, file_path, content.v) IN
        [ok |-> w.ok, fs |-> w.fs, wrote |-> IF w.ok THEN {w.p} ELSE {}]

\* ---------------------------------------------------- placeholder cleanup

\* line 131: path.is_file() && path.to_string_lossy().contains("Counter"),
\* the path being the whole path of the entry, from the target path on
IsCounterFile(f, src_path, p) ==
    LET src == Resolve(f, src_path).p IN
    /\ IsFile(f, p)
    /\ contains(JoinAll(src_path, SubSeq(p, Len(src) + 1, Len(p))), COUNTER)

\* lines 127-138: the files WalkDir finds below src_path and removes
CounterFiles(f, src_path) ==
    LET src == Resolve(f, src_path) IN
    IF ~src.ok \/ ~IsDir(f, src.p) THEN {}
    ELSE {p \in DOMAIN f.files : IsPrefix(src.p, p) /\ IsCounterFile(f, src_path, p)}

\* ---------------------------------------------------------------- inputs

\* The most entries a generated multi-file document holds.
MaxEntries == 2

\* CLI argument chain: two spellings of supported aliases, two unsupported.
Chains ==
    {<<"E", "t", "h">>, <<"B", "A", "S", "E">>, <<"b", "s", "c">>, <<"e", "t", "h", "x">>}

\* CLI argument path: a single component below the working directory.
Paths == {<<"o", "u", "t">>, <<"m", "y", "C", "o", "u", "n", "t", "e", "r">>}

\* The API key variables the environment (and .env) may hold.
Environments ==
    {{"ETHERSCAN_API_KEY"}, {"ETHERSCAN_API_KEY", "BASESCAN_API_KEY"}}

EmptyFs == [dirs |-> {}, files |-> <<>>]

\* The disk before the run: the target path absent, or present with a file.
StartFs(path, present) ==
    IF present
      THEN [dirs |-> {<<path>>}, files |-> (<<path, <<"k", "e", "e", "p">>>> :> <<"k">>)]
      ELSE EmptyFs

\* What forge init leaves below the target path: the current template
\* ("counter") or the earlier one ("contract", its test below src).
Skeletons == {"counter", "contract"}

SkeletonOf(kind, path) ==
    LET src == <<path, SRC>>
        toml == <<"f", "o", "u", "n", "d", "r", "y", ".", "t", "o", "m", "l">>
    IN
    IF kind = "counter"
      THEN [dirs |-> {<<path>>, src, <<path, TEST>>},
            files |-> (<<path, toml>> :> <<"t">>)
                      @@ (Append(src, COUNTER \o <<".", "s", "o", "l">>) :> <<"c">>)
                      @@ (<<path, TEST, COUNTER \o <<".", "t", ".", "s", "o", "l">>>> :> <<"c">>)]
      ELSE [dirs |-> {<<path>>, src, Append(src, TEST)},
            files |-> (<<path, toml>> :> <<"t">>)
                      @@ (Append(src, <<"C", "o", "n", "t", "r", "a", "c", "t", ".", "s", "o", "l">>) :> <<"c">>)
                      @@ (<<path, SRC, TEST, <<"C", "o", "n", "t", "r", "a", "c", "t", ".", "t", ".", "s", "o", "l">>>> :> <<"c">>)]

\* The entries multi-file documents are built from: key, and content (a
\* string, or null when has is FALSE).
Entries ==
    << [key |-> <<"A">>, has |-> TRUE, content |-> <<"x">>],
       [key |-> <<"d", "/", "B">>, has |-> TRUE, content |-> <<"y">>],
       [key |-> <<"N">>, has |-> FALSE, content |-> <<>>],
       [key |-> <<".", ".", "/", "E">>, has |-> TRUE, content |-> <<"x">>],
       [key |-> <<"A", "/", "c">>, has |-> TRUE, content |-> <<"x">>],
       [key |-> <<"G">>, has |-> TRUE, content |-> <<"{", "{">>],
       [key |-> <<".", "/", "A">>, has |-> TRUE, content |-> <<"z">>],
       [key |-> <<"d", "/", "/", "H">>, has |-> TRUE, content |-> <<"x">>] >>

\* "key":{"content":"text"}  or  "key":{"content":null}
EntryText(e) ==
    <<QUOTE>> \o e.key \o <<QUOTE, ":", "{", QUOTE>> \o CONTENT \o <<QUOTE, ":">>
    \o (IF e.has THEN <<QUOTE>> \o e.content \o <<QUOTE>> ELSE <<"n", "u", "l", "l">>)
    \o <<"}">>

RECURSIVE EntriesText(_, _)
EntriesText(ids, sp) ==
    IF ids = {} THEN <<>>
    ELSE
      LET i == CHOOSE x \in ids : \A y \in ids : x <= y IN
      EntryText(Entries[i]) \o sp
      \o (IF ids = {i} THEN <<>> ELSE <<",">> \o EntriesText(ids \ {i}, sp))

\* {"sources":{ entries }}, sp (nothing or a blank) after each entry and
\* between the closing braces
Doc(ids, sp) ==
    <<"{", QUOTE>> \o SOURCES \o <<QUOTE, ":", "{">> \o EntriesText(ids, sp)
    \o <<"}">> \o sp \o <<"}">>

\* Every brace doubled.
RECURSIVE Doubled(_)
Doubled(s) ==
    IF s = <<>> THEN <<>>
    ELSE (IF Head(s) \in {"{", "}"} THEN <<Head(s), Head(s)>> ELSE <<Head(s)>>)
         \o Doubled(Tail(s))

\* One more pair of braces around the document.
Wrapped(s) == <<"{">> \o s \o <<"}">>

PlainDocs ==
    {Doc(ids, sp) : ids \in {x \in SUBSET (1..Len(Entries)) : Cardinality(x) <= MaxEntries},
                    sp \in {<<>>, <<" ">>}}

MultiSources ==
    PlainDocs \cup {Doubled(d) : d \in PlainDocs} \cup {Wrapped(d) : d \in PlainDocs}

SingleSources ==
    {<<"/", "/", " ", "h", "i">>, <<" ", "{", "}">>, <<"c", " ", "{", "{", "}", "}">>}

\* Text that opens a brace and is no JSON, JSON without sources, sources
\* that is no object.
BadSources ==
    {<<"{">>,
     <<"{", QUOTE>> \o CONTENT \o <<QUOTE, ":", QUOTE, "x", QUOTE, "}">>,
     <<"{", QUOTE>> \o SOURCES \o <<QUOTE, ":", QUOTE, "x", QUOTE, "}">>}

SourceCodes == SingleSources \cup MultiSources \cup BadSources

ResultWith(v) == Array(<<Object(SOURCECODE :> v)>>)

\* The status field of a reply: absent, "1", "0", the number 0 or null.
StatusChoices == {"absent", "1", "0", "number", "null"}

StatusValue(c) ==
    IF c = "number" THEN Number(<<"0">>)
    ELSE IF c = "null" THEN Null
    ELSE Str(<<c>>)

\* The result field of a reply (present FALSE: no such field).
FewResults ==
    {[present |-> TRUE, v |-> Str(<<"e", "r", "r">>)],
     [present |-> TRUE, v |-> ResultWith(Str(<<"/", "/", " ", "h", "i">>))],
     [present |-> TRUE, v |-> ResultWith(Str(Doc({1}, <<>>)))]}

AllResults ==
    FewResults
    \cup {[present |-> FALSE, v |-> Null],
          [present |-> TRUE, v |-> Array(<<>>)],
          [present |-> TRUE, v |-> Array(<<Object(<<>>)>>)],
          [present |-> TRUE, v |-> ResultWith(Null)],
          [present |-> TRUE, v |-> ResultWith(Str(<<>>))]}
    \cup {[present |-> TRUE, v |-> ResultWith(Str(s))] : s \in SourceCodes}

Envelope(st, res) ==
    LET m == IF st = "absent" THEN <<>> ELSE MapInsert(<<>>, STATUS, StatusValue(st)) IN
    Object(IF res.present THEN MapInsert(m, RESULT, res.v) ELSE m)

Envelopes ==
    {Envelope("1", r) : r \in AllResults}
    \cup {Envelope(st, r) : st \in StatusChoices, r \in FewResults}

\* What the GET comes back with: a transport error, a body that is no JSON,
\* or a JSON envelope.
Replies ==
    {[kind |-> "network", json |-> Null], [kind |-> "body", json |-> Null]}
    \cup {[kind |-> "json", json |-> e] : e \in Envelopes}

\* ----------------------------------------------------------------- state

VARIABLES
    pc,           \* the step main is at, "done" or "failed" at its end
    args,         \* Args: chain, address, path
    env,          \* the variables env::var finds
    fs,           \* the disk
    config,       \* the ChainConfig, once resolved
    api_key,      \* the API key, once read
    output,       \* how forge init ended: "none", "spawn_error", "failure", "success"
    forge_calls,  \* the times the scaffolding command was started
    requests,     \* the URLs of the GETs sent
    json,         \* the envelope fetch_contract_source parsed
    source_code,  \* result[0]["SourceCode"]
    sources,      \* the file map
    pending,      \* the keys of sources the loop has yet to take
    created,      \* the directories the loop over sources created
    written,      \* the files the loop over sources wrote
    err,          \* why the run failed
    fs_start,     \* the disk before the run
    fs_forge,     \* the disk as forge init left it
    fs_clean      \* the disk as the Counter cleanup left it

vars ==
    <<pc, args, env, fs, config, api_key, output, forge_calls, requests, json,
      source_code, sources, pending, created, written, err, fs_start, fs_forge,
      fs_clean>>

\* line 124: path.join("src")
src_path == push(args.path, SRC)

Init ==
    /\ pc = "resolve_chain"
    /\ args \in [chain : Chains, address : {"0xabc"}, path : Paths]
    /\ env \in Environments
    /\ \E present \in BOOLEAN : fs = StartFs(args.path, present)
    /\ config = NoConfig
    /\ api_key = ""
    /\ output = "none"
    /\ forge_calls = 0
    /\ requests = <<>>
    /\ json = Null
    /\ source_code = <<>>
    /\ sources = <<>>
    /\ pending = {}
    /\ created = {}
    /\ written = {}
    /\ err = ""
    /\ fs_start = fs
    /\ fs_forge = EmptyFs
    /\ fs_clean = EmptyFs

Abort(e) == pc' = "failed" /\ err' = e

\* lines 90-91: get_chain_config(&args.chain).expect("Unsupported chain")
ResolveChain ==
    /\ pc = "resolve_chain"
    /\ LET c == get_chain_config(args.chain) IN
       IF c.some
         THEN config' = c.v /\ pc' = "api_key" /\ err' = err
         ELSE config' = config /\ Abort("Unsupported chain")
    /\ UNCHANGED <<args, env, fs, api_key, output, forge_calls, requests, json,
                   source_code, sources, pending, created, written, fs_start,
                   fs_forge, fs_clean>>

\* lines 94-95: env::var(config.api_key_env), a panic when it is not set
GetApiKey ==
    /\ pc = "api_key"
    /\ IF config.api_key_env \in env
         THEN api_key' = "key" /\ pc' = "check_path" /\ err' = err
         ELSE api_key' = api_key /\ Abort("environment variable not set")
    /\ UNCHANGED <<args, env, fs, config, output, forge_calls, requests, json,
                   source_code, sources, pending, created, written, fs_start,
                   fs_forge, fs_clean>>

\* lines 98-102: a panic when the path exists
CheckPath ==
    /\ pc = "check_path"
    /\ IF path_exists(fs, args.path)
         THEN Abort("Path already exists")
         ELSE pc' = "create_dir" /\ err' = err
    /\ UNCHANGED <<args, env, fs, config, api_key, output, forge_calls, requests,
                   json, source_code, sources, pending, created, written,
                   fs_start, fs_forge, fs_clean>>

\* line 104: std::fs::create_dir(&path)?
CreateDir ==
    /\ pc = "create_dir"
    /\ LET r == create_dir(fs, args.path) IN
       /\ fs' = r.fs
       /\ IF r.ok THEN pc' = "forge_init" /\ err' = err ELSE Abort("create_dir")
    /\ UNCHANGED <<args, env, config, api_key, output, forge_calls, requests,
                   json, source_code, sources, pending, created, written,
                   fs_start, fs_forge, fs_clean>>

\* forge init is taken for a success whatever its exit status.
ForgeFailed_never(o) == FALSE

\* lines 115-120: output()? fails when forge cannot be started, and a status
\* that is no success is a panic
ForgeFailed(o) == o # "success"

\* lines 111-121: forge init <path> --no-commit
ForgeInit ==
    /\ pc = "forge_init"
    /\ forge_calls' = forge_calls + 1
    /\ \E o \in {"spawn_error", "failure"} \cup Skeletons :
         /\ output' = IF o \in Skeletons THEN "success" ELSE o
         /\ fs' = IF o \in Skeletons
                    THEN LET k == SkeletonOf(o, args.path) IN
                         [dirs |-> fs.dirs \cup k.dirs, files |-> k.files @@ fs.files]
                    ELSE fs
         /\ fs_forge' = fs'
         /\ IF ForgeFailed(output')
              THEN Abort("Forge initialization failed")
              ELSE pc' = "cleanup" /\ err' = err
    /\ UNCHANGED <<args, env, config, api_key, requests, json, source_code,
                   sources, pending, created, written, fs_start, fs_clean>>

\* lines 123-138: the Counter files below src are removed (a walk error is
\* logged and skipped; remove_file is taken to succeed)
Cleanup ==
    /\ pc = "cleanup"
    /\ fs' = remove_files(fs, CounterFiles(fs, src_path))
    /\ fs_clean' = fs'
    /\ pc' = "fetch"
    /\ UNCHANGED <<args, env, config, api_key, output, forge_calls, requests,
                   json, source_code, sources, pending, created, written, err,
                   fs_start, fs_forge>>

\* lines 141-144 and fetch_contract_source: one GET, the body parsed, the
\* status looked at
Fetch ==
    /\ pc = "fetch"
    /\ requests' = Append(requests, build_url(config, args.address, api_key))
    /\ \E reply \in Replies :
         /\ json' = reply.json
         /\ IF reply.kind = "network" THEN Abort("request failed")
            ELSE IF reply.kind = "body" THEN Abort("body is no JSON")
            ELSE IF ApiError(reply.json) THEN Abort("API error")
            ELSE pc' = "decode" /\ err' = err
    /\ UNCHANGED <<args, env, fs, config, api_key, output, forge_calls,
                   source_code, sources, pending, created, written, fs_start,
                   fs_forge, fs_clean>>

\* lines 146-181: the SourceCode string and its file map
Decode ==
    /\ pc = "decode"
    /\ LET sc == SourceCodeOf(json) IN
       IF ~sc.ok
         THEN Abort(sc.err) /\ UNCHANGED <<source_code, sources, pending>>
         ELSE
           LET r == ResolveSources(sc.s) IN
           /\ source_code' = sc.s
           /\ IF r.ok
                THEN sources' = r.map /\ pending' = DOMAIN r.map
                     /\ pc' = "write" /\ err' = err
                ELSE Abort(r.err) /\ UNCHANGED <<sources, pending>>
    /\ UNCHANGED <<args, env, fs, config, api_key, output, forge_calls, requests,
                   json, created, written, fs_start, fs_forge, fs_clean>>

\* lines 184-201: one entry of the file map; the map hands its entries out
\* in the order of its build (sorted, or as inserted), any order here
WriteEntry ==
    /\ pc = "write"
    /\ \E key \in pending :
         LET w == WriteOne(fs, src_path, key, sources[key]) IN
         /\ fs' = w.fs
         /\ created' = created \cup (w.fs.dirs \ fs.dirs)
         /\ written' = written \cup w.wrote
         /\ IF w.ok
              THEN pending' = pending \ {key} /\ pc' = pc /\ err' = err
              ELSE pending' = pending /\ Abort("io")
    /\ UNCHANGED <<args, env, config, api_key, output, forge_calls, requests,
                   json, source_code, sources, fs_start, fs_forge, fs_clean>>

\* lines 203-204: the loop is over, Ok(())
Finish ==
    /\ pc = "write"
    /\ pending = {}
    /\ pc' = "done"
    /\ UNCHANGED <<args, env, fs, config, api_key, output, forge_calls, requests,
                   json, source_code, sources, pending, created, written, err,
                   fs_start, fs_forge, fs_clean>>

Next ==
    \/ ResolveChain
    \/ GetApiKey
    \/ CheckPath
    \/ CreateDir
    \/ ForgeInit
    \/ Cleanup
    \/ Fetch
    \/ Decode
    \/ WriteEntry
    \/ Finish

Spec == Init /\ [][Next]_vars

\* ---------------------------------------------------------------- claims

\* The project's source directory, and the file a key stands for below it.
SrcDir == <<args.path, SRC>>

\* The Counter cleanup has run.
Cleaned_up == pc \in {"fetch", "decode", "write", "done"} \/ (pc = "failed" /\ requests # <<>>)

\* The (path, content) files of a file map: its entries with a string content.
FilesOfMap(m) ==
    [k \in {x \in DOMAIN m : Index(m[x], CONTENT).t = "string"} |-> Index(m[k], CONTENT).s]

\* What a SourceCode is decoded to: failure, or the files of its map.
Decoded(s) ==
    LET r == ResolveSources(s) IN
    [ok |-> r.ok, files |-> IF r.ok THEN FilesOfMap(r.map) ELSE <<>>]

\* A JSON object whose sources field is an object of entry objects.
IsMultiFileJson(s) ==
    LET r == from_str(s) IN
    /\ r.ok
    /\ Index(r.v, SOURCES).t = "object"
    /\ \A k \in DOMAIN Index(r.v, SOURCES).o : Index(r.v, SOURCES).o[k].t = "object"

SourcesOfJson(s) == Index(from_str(s).v, SOURCES).o

\* Keys that are plain relative paths: every part a name, and no key a
\* directory of another.
PlainKeys(m) ==
    /\ \A k \in DOMAIN m : \A i \in 1..Len(split(k, "/")) :
         split(k, "/")[i] \notin {<<>>, DOT, DOTDOT}
    /\ \A k1, k2 \in DOMAIN m :
         k1 # k2 => ~IsPrefix(split(k1, "/"), split(k2, "/"))

\* C1: multi-file mode.  When SourceCode starts with "{" and is a JSON
\* object whose sources field maps relative paths to entry objects, the
\* run does not fail, and at its end the files written are exactly the
\* entries with a string content, each at src/<path> with that content.
C1_MultiFileWritesEachStringEntry ==
    (/\ source_code # <<>>
     /\ Head(source_code) = "{"
     /\ IsMultiFileJson(source_code)
     /\ PlainKeys(SourcesOfJson(source_code)))
    => /\ pc # "failed"
       /\ pc = "done" =>
            LET files == FilesOfMap(SourcesOfJson(source_code)) IN
            /\ written = {SrcDir \o split(k, "/") : k \in DOMAIN files}
            /\ \A k \in DOMAIN files : fs.files[SrcDir \o split(k, "/")] = files[k]

\* C2: single-file mode.  When SourceCode is not empty and its first
\* character is not "{", the run does not fail in the materializer, which
\* creates no directory and writes one file, src/Single.sol, holding the
\* whole SourceCode; everything else on disk stays as the cleanup left it.
C2_SingleFileWritesSingleSol ==
    (source_code # <<>> /\ Head(source_code) # "{")
    => /\ pc \in {"write", "done"}
       /\ created = {}
       /\ fs.dirs = fs_clean.dirs
       /\ pc = "done" =>
            /\ written = {Append(SrcDir, SINGLE_SOL)}
            /\ fs.files = MapInsert(fs_clean.files, Append(SrcDir, SINGLE_SOL), source_code)

C2_Witness ==
    /\ pc = "done"
    /\ source_code # <<>> /\ Head(source_code) # "{"
    /\ written = {Append(SrcDir, SINGLE_SOL)}

\* The consequence C3 states: the fetch returned its error, the run failed,
\* and the disk is as the scaffolder left it.
C3_FailedClean ==
    /\ pc = "failed"
    /\ err = "API error"
    /\ created = {} /\ written = {}
    /\ fs = fs_clean

\* C3 as stated: every envelope with a status field whose value is anything
\* but the string "1" makes the fetch fail with nothing written or created.
C3_AnyOtherStatusFails ==
    (json.t = "object" /\ STATUS \in DOMAIN json.o /\ json.o[STATUS] # Str(<<"1">>))
    => C3_FailedClean

\* C3 as amended: every envelope whose status field is a string other than
\* "1" makes the fetch fail with nothing written or created.
C3_OtherStringStatusFails ==
    (json.t = "object" /\ Index(json, STATUS).t = "string" /\ Index(json, STATUS).s # <<"1">>)
    => C3_FailedClean

C3_Witness ==
    /\ Index(json, STATUS) = Str(<<"0">>)
    /\ Index(json, RESULT).t = "array"
    /\ C3_FailedClean

\* C4: at most one GET is sent, and only after the chain resolved, the API
\* key was found, the target path was found absent and forge init
\* succeeded; an existing target path or a failing forge init ends in a
\* failed run with no request and no source file written.
C4_OneGetAfterScaffold ==
    /\ Len(requests) <= 1
    /\ requests # <<>> =>
         /\ config # NoConfig
         /\ api_key # ""
         /\ ~path_exists(fs_start, args.path)
         /\ output = "success" /\ forge_calls = 1
    /\ (path_exists(fs_start, args.path) \/ output = "failure") =>
         /\ requests = <<>> /\ written = {}
         /\ pc \in {"resolve_chain", "api_key", "check_path", "failed"}

C4_Witness ==
    /\ Len(requests) = 1
    /\ output = "success"
    /\ pc = "done"

\* C5: when the chain is no supported alias (not "eth" or "base" in any
\* case), or the target path exists, the run fails with the disk unchanged:
\* nothing created, deleted or written, forge never started.
C5_NoEffectOnBadChainOrPath ==
    (to_lowercase(args.chain) \notin {ETH, BASE} \/ path_exists(fs_start, args.path))
    => /\ fs = fs_start
       /\ forge_calls = 0
       /\ requests = <<>>
       /\ pc \in {"resolve_chain", "api_key", "check_path", "failed"}

C5_Witness ==
    /\ pc = "failed"
    /\ err \in {"Unsupported chain", "Path already exists"}
    /\ fs = fs_start

\* C6: every directory the materializer creates and every file it writes
\* lies inside <path>/src, whatever the parts of the key (empty, "." and
\* ".." included).
C6_WritesStayInsideSrc ==
    \A p \in created \cup written : Len(p) > Len(SrcDir) /\ IsPrefix(SrcDir, p)

\* C7: for a JSON document D that starts with "{", the normalization turns
\* D with every brace doubled back into D, and the doubled text is decoded
\* to the same files as D.
C7_DoubledBracesRoundTrip ==
    (source_code # <<>> /\ Head(source_code) = "{" /\ from_str(source_code).ok)
    => /\ Cleaned(Doubled(source_code)) = source_code
       /\ Decoded(Doubled(source_code)) = Decoded(source_code)

\* C8: after a successful scaffold the cleanup removes a file below
\* <path>/src exactly when the file's own name contains "Counter", and
\* leaves every other file and every directory in place.
C8_CleanupByOwnName ==
    Cleaned_up =>
      /\ fs_clean.dirs = fs_forge.dirs
      /\ \A p \in DOMAIN fs_forge.files :
           IF IsPrefix(SrcDir, p) /\ contains(Last(p), COUNTER)
             THEN p \notin DOMAIN fs_clean.files
             ELSE p \in DOMAIN fs_clean.files /\ fs_clean.files[p] = fs_forge.files[p]

\* The envelope gives no file set: no result array, no SourceCode string,
\* an empty one, or multi-file text that (after the brace normalization the
\* decoder applies) is no JSON or holds no sources object.
C9_Undecodable(j) ==
    LET res == Index(j, RESULT) IN
    \/ res.t # "array"
    \/ res.a = <<>>
    \/ Index(res.a[1], SOURCECODE).t # "string"
    \/ Index(res.a[1], SOURCECODE).s = <<>>
    \/ LET s == Index(res.a[1], SOURCECODE).s
           r == from_str(IF contains(s, <<"{", "{">>) THEN Cleaned(s) ELSE s)
       IN
       Head(s) = "{" /\ (~r.ok \/ Index(r.v, SOURCES).t # "object")

\* C9: when the fetched envelope cannot be decoded into a file set, the run
\* fails before the materializer creates or writes anything, and the
\* scaffolded project directory stays on disk, nothing removed.
C9_UndecodableFailsBeforeWriting ==
    (json.t = "object" /\ pc # "decode" /\ C9_Undecodable(json))
    => /\ pc = "failed"
       /\ created = {} /\ written = {}
       /\ fs = fs_clean
       /\ IsDir(fs, <<args.path>>) /\ IsDir(fs, SrcDir)

C9_Witness ==
    /\ pc = "failed"
    /\ err \in {"No result array in response", "index out of bounds",
                "No source code in response", "Contract source code is empty",
                "json", "No sources object in contract"}
    /\ fs = fs_clean
    /\ IsDir(fs, SrcDir)

\* C10: a SourceCode that is a valid multi-file JSON object J inside one
\* more pair of braces is decoded to the files of J, and the run does not
\* fail.
C10_DoubleWrappedDecodesAsInner ==
    LET inner == SubSeq(source_code, 2, Len(source_code) - 1) IN
    (/\ Len(source_code) > 2
     /\ source_code = Wrapped(inner)
     /\ Head(inner) = "{"
     /\ IsMultiFileJson(inner)
     /\ PlainKeys(SourcesOfJson(inner)))
    => /\ pc # "failed"
       /\ FilesOfMap(sources) = FilesOfMap(SourcesOfJson(inner))

====
